---------------------------- MODULE Spec2Model ----------------------------
(***************************************************************************)
(* PushUp browser extension: the submission-capture pipeline.              *)
(*                                                                         *)
(*   content script  (utils/streak.ts 212-344, content/content.ts)         *)
(*        SubmissionDetector: a MutationObserver callback that tests      *)
(*        isSuccessfulSubmission and sends NEW_SUBMISSION                  *)
(*   background      (background.ts)                                       *)
(*        onMessage -> handleNewSubmission -> saveSolution,                *)
(*        updateDailySubmissions, updateStreak, checkAchievements          *)
(*   repository client (utils/github.ts 20-347)                            *)
(*   popup           (popup/App.tsx)  the "+1 Manual Boost" button         *)
(*                                                                         *)
(* Text is a sequence of one-character strings; file content is a sequence *)
(* of UTF-16 code units.  Calendar dates (the YYYY-MM-DD prefix of toISOString)  *)
(* are day numbers, day 0 being 2025-01-01.                                *)
(***************************************************************************)
EXTENDS Integers, Sequences, FiniteSets, TLC

VARIABLES
    now,        \* the clock: the current calendar day (new Date())
    page,       \* the watched document: [platform, dom, problem]
    service,    \* background.ts:23  let githubService
    handlers,   \* the in-flight handleNewSubmission calls, one per slot
    store,      \* chrome.storage.local
    remote,     \* the files of the remote repositories
    hist        \* history of the run: submissions accepted, messages sent
                \* and answered with success or with an error, the last
                \* configuration message and its answer, and the limits of
                \* the run

vars == <<now, page, service, handlers, store, remote, hist>>

-----------------------------------------------------------------------------
(* Bounds of the model.                                                    *)

MaxHandlers == 2      \* handleNewSubmission calls that may overlap
MaxMsgs == 2          \* NEW_SUBMISSION messages in a run
MaxTicks == 1         \* midnights crossed in a run
MaxFaults == 1        \* storage / transport failures injected in a run
MaxBoosts == 1        \* clicks on "+1 Manual Boost" in a run
MaxDst == 1           \* changes of the local clock (daylight saving) in a run

\* the same, for the runs in which the operations follow one another
SeqMsgs == 3
SeqTicks == 2
SeqFaults == 1
SeqBoosts == 1
SeqDst == 1

\* bounds of the runs on the installation with the long history
OldMsgs == 2
OldTicks == 1
OldFaults == 0
OldBoosts == 1
OldDst == 0

\* bounds of the runs in which the listener is given messages directly
DirMsgs == 1
DirFaults == 1

\* bounds of the runs with every kind of configuration
CfgMsgs == 1
CfgTicks == 1
CfgFaults == 0
CfgBoosts == 1
CfgDst == 0

\* the run with alarms
AlmMsgs == 1
AlmTicks == 1
AlmFaults == 0
AlmBoosts == 1
AlmDst == 0
AlmAlarms == 2
AlmPrefs == 1
AlmReads == 1

-----------------------------------------------------------------------------
(* Text helpers.                                                           *)

Upper == <<"A","B","C","D","E","F","G","H","I","J","K","L","M",
           "N","O","P","Q","R","S","T","U","V","W","X","Y","Z">>
Lower == <<"a","b","c","d","e","f","g","h","i","j","k","l","m",
           "n","o","p","q","r","s","t","u","v","w","x","y","z">>
Digits == {"0","1","2","3","4","5","6","7","8","9"}

Range(s) == {s[i] : i \in DOMAIN s}

\* String.prototype.toLowerCase, one character
LowerChar(c) ==
    IF c \in Range(Upper)
    THEN Lower[CHOOSE i \in DOMAIN Upper : Upper[i] = c]
    ELSE c

\* String.prototype.toLowerCase
ToLowerCase(s) == [i \in DOMAIN s |-> LowerChar(s[i])]

\* .replace(/-+/g, '-'): every run of hyphens becomes one hyphen
RECURSIVE CollapseHyphens(_)
CollapseHyphens(s) ==
    IF Len(s) < 2 THEN s
    ELSE IF s[1] = "-" /\ s[2] = "-" THEN CollapseHyphens(Tail(s))
    ELSE <<s[1]>> \o CollapseHyphens(Tail(s))

\* .replace(/^-|-$/g, ''): one leading and one trailing hyphen are removed
TrimOneHyphen(s) ==
    LET a == IF Len(s) > 0 /\ s[1] = "-" THEN Tail(s) ELSE s
    IN  IF Len(a) > 0 /\ a[Len(a)] = "-" THEN SubSeq(a, 1, Len(a) - 1) ELSE a

\* String.prototype.trim with the white space ws, and the removal of every
\* leading and trailing hyphen, .replace(/^-+|-+$/g, '')
RECURSIVE Strip(_, _)
Strip(s, ws) ==
    IF s = <<>> THEN s
    ELSE IF s[1] \in ws THEN Strip(Tail(s), ws)
    ELSE IF s[Len(s)] \in ws THEN Strip(SubSeq(s, 1, Len(s) - 1), ws)
    ELSE s

Space == {" "}

\* the white space of a text held as code units: tab, line feed, carriage
\* return, space
SpaceUnits == {9, 10, 13, 32}

\* .toLowerCase().replace(/[^a-z0-9]+/g, '-').replace(/^-+|-+$/g, '')
Slug(title) ==
    LET lowered == ToLowerCase(title)
        replaced == [i \in DOMAIN lowered |->
                       IF lowered[i] \in Range(Lower) \cup Digits
                       THEN lowered[i] ELSE "-"]
    IN  Strip(CollapseHyphens(replaced), {"-"})

\* the longest prefix of s made of the characters of set
RECURSIVE Prefix(_, _)
Prefix(s, set) ==
    IF s = <<>> \/ s[1] \notin set THEN <<>>
    ELSE <<s[1]>> \o Prefix(Tail(s), set)

\* the decimal digits of a natural number
RECURSIVE Decimal(_)
Decimal(n) ==
    LET digit == <<"0","1","2","3","4","5","6","7","8","9">>[(n % 10) + 1]
    IN  IF n < 10 THEN <<digit>> ELSE Decimal(n \div 10) \o <<digit>>

-----------------------------------------------------------------------------
(* Repository client: path computation (utils/github.ts).                  *)

\* .replace(/[^a-z0-9-_]/g, '-'), one character
SanitizeChar(c) ==
    IF c \in Range(Lower) \cup Digits \cup {"-", "_"} THEN c ELSE "-"

sanitizeFileName(name) ==
    LET lowered == ToLowerCase(name)
        replaced == [i \in DOMAIN lowered |-> SanitizeChar(lowered[i])]
    IN  TrimOneHyphen(CollapseHyphens(replaced))

langMap ==
    { << <<"j","a","v","a","s","c","r","i","p","t">>, <<"j","s">> >>,
      << <<"t","y","p","e","s","c","r","i","p","t">>, <<"t","s">> >>,
      << <<"p","y","t","h","o","n">>, <<"p","y">> >>,
      << <<"j","a","v","a">>, <<"j","a","v","a">> >>,
      << <<"c","p","p">>, <<"c","p","p">> >>,
      << <<"c","+","+">>, <<"c","p","p">> >>,
      << <<"r","u","b","y">>, <<"r","b">> >>,
      << <<"g","o","l","a","n","g">>, <<"g","o">> >>,
      << <<"r","u","s","t">>, <<"r","s">> >> }

getFileExtension(language) ==
    LET key == ToLowerCase(language)
        hits == {e \in langMap : e[1] = key}
    IN  IF hits = {} THEN <<"t","x","t">> ELSE (CHOOSE e \in hits : TRUE)[2]

Leetcode == <<"l","e","e","t","c","o","d","e">>
Codeforces == <<"c","o","d","e","f","o","r","c","e","s">>
Codechef == <<"c","o","d","e","c","h","e","f">>
Unknown == <<"u","n","k","n","o","w","n">>

SupportedPlatforms == {Leetcode, Codeforces, Codechef}

\* getFilePath throws GitHubError(INVALID_PLATFORM) in the default branch
PlatformSupported(platform) == ToLowerCase(platform) \in SupportedPlatforms

getFilePath(platform, problemId, language) ==
    ToLowerCase(platform) \o <<"/">> \o sanitizeFileName(problemId)
        \o <<".">> \o getFileExtension(language)

-----------------------------------------------------------------------------
(* Repository client: content encoding, btoa(unescape(encodeURIComponent)) *)
(* A string is a sequence of UTF-16 code units, as in the language.        *)

IsHighSurrogate(u) == u \in 55296..56319
IsLowSurrogate(u) == u \in 56320..57343

\* encodeURIComponent throws URIError on a string with a lone surrogate
RECURSIVE WellFormed(_)
WellFormed(text) ==
    IF text = <<>> THEN TRUE
    ELSE IF IsHighSurrogate(text[1])
         THEN /\ Len(text) >= 2
              /\ IsLowSurrogate(text[2])
              /\ WellFormed(SubSeq(text, 3, Len(text)))
    ELSE ~IsLowSurrogate(text[1]) /\ WellFormed(Tail(text))

\* the code point of a surrogate pair
PairCodePoint(hi, lo) == 65536 + (hi - 55296) * 1024 + (lo - 56320)

\* encodeURIComponent + unescape: the UTF-8 bytes of one code point
Utf8Char(cp) ==
    IF cp < 128 THEN <<cp>>
    ELSE IF cp < 2048 THEN <<192 + (cp \div 64), 128 + (cp % 64)>>
    ELSE IF cp < 65536
         THEN <<224 + (cp \div 4096), 128 + ((cp \div 64) % 64), 128 + (cp % 64)>>
    ELSE <<240 + (cp \div 262144), 128 + ((cp \div 4096) % 64),
           128 + ((cp \div 64) % 64), 128 + (cp % 64)>>

\* the UTF-8 bytes of a well-formed string
RECURSIVE Utf8Bytes(_)
Utf8Bytes(text) ==
    IF text = <<>> THEN <<>>
    ELSE IF IsHighSurrogate(text[1]) /\ Len(text) >= 2
         THEN Utf8Char(PairCodePoint(text[1], text[2]))
              \o Utf8Bytes(SubSeq(text, 3, Len(text)))
    ELSE Utf8Char(text[1]) \o Utf8Bytes(Tail(text))

Pad == 64     \* the '=' of base64; the digits are 0..63

\* btoa: three bytes become four digits, the tail is padded
RECURSIVE Btoa(_)
Btoa(b) ==
    IF Len(b) = 0 THEN <<>>
    ELSE IF Len(b) = 1 THEN <<b[1] \div 4, (b[1] % 4) * 16, Pad, Pad>>
    ELSE IF Len(b) = 2
         THEN <<b[1] \div 4, (b[1] % 4) * 16 + (b[2] \div 16), (b[2] % 16) * 4, Pad>>
    ELSE <<b[1] \div 4, (b[1] % 4) * 16 + (b[2] \div 16),
           (b[2] % 16) * 4 + (b[3] \div 64), b[3] % 64>>
         \o Btoa(SubSeq(b, 4, Len(b)))

\* a faulty encoder: btoa over the code points, the UTF-8 step left out
EncodeContentNoUtf8(code) == Btoa(code)

\* github.ts 271, 296: btoa(unescape(encodeURIComponent(content)))
EncodeContent(code) == Btoa(Utf8Bytes(code))

-----------------------------------------------------------------------------
(* The remote repository API as the client uses it.  A file is            *)
(* [repo, path, bytes]; its blob hash is a function of its bytes alone.    *)

\* the API decodes the base64 payload of createOrUpdateFileContents
RECURSIVE Atob(_)
Atob(d) ==
    IF Len(d) < 4 THEN <<>>
    ELSE LET b1 == d[1] * 4 + (d[2] \div 16)
             b2 == (d[2] % 16) * 16 + (d[3] \div 4)
             b3 == (d[3] % 4) * 64 + d[4]
         IN  IF d[3] = Pad THEN <<b1>>
             ELSE IF d[4] = Pad THEN <<b1, b2>>
             ELSE <<b1, b2, b3>> \o Atob(SubSeq(d, 5, Len(d)))

\* the blob hash of a file: determined by its bytes, and by nothing else
BlobSha(bytes) == <<bytes>>

NoSha == <<>>

FilesAt(files, repo, path) == {f \in files : f.repo = repo /\ f.path = path}

\* a repository exists when it holds a file: auto_init gives every
\* repository the client creates a README.md
RepoExists(files, repo) == \E f \in files : f.repo = repo

\* the repositories the account can read and cannot push to
ReadOnlyRepos == {"repo-ro"}

\* repos.get: data.permissions.push
CanPush(repo) == repo \notin ReadOnlyRepos

\* repos.getContent: the status of the answer
GetContentStatus(files, repo, path) ==
    IF FilesAt(files, repo, path) = {} THEN 404 ELSE 200

\* repos.getContent: the sha of the answer (status 200)
GetContentSha(files, repo, path) ==
    BlobSha((CHOOSE f \in FilesAt(files, repo, path) : TRUE).bytes)

\* repos.createOrUpdateFileContents: the status of the answer
PutStatus(files, repo, path, sha) ==
    IF ~RepoExists(files, repo) THEN 404
    ELSE IF ~CanPush(repo) THEN 403
    ELSE IF FilesAt(files, repo, path) = {}
    THEN (IF sha = NoSha THEN 201 ELSE 404)
    ELSE IF sha = NoSha THEN 422
    ELSE IF sha # GetContentSha(files, repo, path) THEN 409
    ELSE 200

\* repos.createOrUpdateFileContents: the files afterwards
PutFiles(files, repo, path, content, sha) ==
    IF PutStatus(files, repo, path, sha) \in {200, 201}
    THEN (files \ FilesAt(files, repo, path))
            \cup {[repo |-> repo, path |-> path, bytes |-> Atob(content)]}
    ELSE files


-----------------------------------------------------------------------------
(* Repository client: repository setup (utils/github.ts).  An operation    *)
(* gives the files afterwards and the code of the error it throws, "none"  *)
(* when it returns.                                                         *)

\* the status of a request that got no answer
NoResponse == 0

\* github.ts 308-346: the code given to an error of the transport
handleGitHubError(status) ==
    CASE status = 401 -> "UNAUTHORIZED"
      [] status = 403 -> "FORBIDDEN"
      [] status = 404 -> "NOT_FOUND"
      [] status = 422 -> "VALIDATION_FAILED"
      [] OTHER -> "UNKNOWN_ERROR"

Readme == <<"R","E","A","D","M","E",".","m","d">>

\* repos.createForAuthenticatedUser with auto_init: the files of the new
\* repository
AutoInit(repo) == {[repo |-> repo, path |-> Readme, bytes |-> <<35>>]}

Folders == <<Leetcode, Codeforces, Codechef>>

\* github.ts 460-462: the placeholder file of a folder
Placeholder(folder) == folder \o <<"/",".","g","i","t","k","e","e","p">>

\* github.ts 112: the placeholder file of a folder, in
\* createRepositoryWithStructure
FolderReadme(folder) == folder \o <<"/">> \o Readme

\* checkFileExists, then createFile when the file is missing, for each path
\* in turn (github.ts 99-126, 457-468)
RECURSIVE CreateMissing(_, _, _, _)
CreateMissing(files, repo, paths, bytes) ==
    IF paths = <<>> THEN [files |-> files, code |-> "none"]
    ELSE IF GetContentStatus(files, repo, Head(paths)) # 404
    THEN CreateMissing(files, repo, Tail(paths), bytes)
    ELSE IF PutStatus(files, repo, Head(paths), NoSha) \in {200, 201}
    THEN CreateMissing(PutFiles(files, repo, Head(paths), Btoa(bytes), NoSha),
                       repo, Tail(paths), bytes)
    ELSE [files |-> files,
          code |-> handleGitHubError(PutStatus(files, repo, Head(paths), NoSha))]

\* github.ts 457-468
initializeFolders(files, repo) ==
    CreateMissing(files, repo,
                  [i \in DOMAIN Folders |-> Placeholder(Folders[i])], <<>>)

\* github.ts 445-455: the push permission, or the error of repos.get
verifyRepoAccess(files, repo) ==
    IF RepoExists(files, repo)
    THEN [push |-> CanPush(repo), code |-> "none"]
    ELSE [push |-> FALSE, code |-> handleGitHubError(404)]

\* github.ts 419-443: status 422 of the creation becomes REPO_EXISTS
createNewRepo(files, repo) ==
    IF RepoExists(files, repo)
    THEN [files |-> files, code |-> "REPO_EXISTS"]
    ELSE [files |-> files \cup AutoInit(repo), code |-> "none"]

\* a faulty setup: the folders are initialised without looking at the push
\* permission
setupRepoUnchecked(files, repo, isNew) ==
    LET created == createNewRepo(files, repo)
    IN  IF isNew
        THEN IF created.code # "none" THEN created
             ELSE initializeFolders(created.files, repo)
        ELSE IF verifyRepoAccess(files, repo).code # "none"
        THEN [files |-> files, code |-> verifyRepoAccess(files, repo).code]
        ELSE initializeFolders(files, repo)

\* github.ts 399-417
setupRepo(files, repo, isNew) ==
    LET created == createNewRepo(files, repo)
    IN  IF isNew
        THEN IF created.code # "none" THEN created
             ELSE initializeFolders(created.files, repo)
        ELSE IF verifyRepoAccess(files, repo).code # "none"
        THEN [files |-> files, code |-> verifyRepoAccess(files, repo).code]
        ELSE IF ~verifyRepoAccess(files, repo).push
        THEN [files |-> files, code |-> "PERMISSION_ERROR"]
        ELSE initializeFolders(files, repo)

\* github.ts 34-93: status 422 of the creation leads to repos.get, whose
\* failure becomes REPO_ACCESS_ERROR; the README.md files are created where
\* missing (95-132)
createRepositoryWithStructure(files, repo) ==
    LET adopted == IF RepoExists(files, repo) THEN files
                   ELSE files \cup AutoInit(repo)
    IN  CreateMissing(adopted, repo,
                      <<Readme>> \o [i \in DOMAIN Folders |->
                                        FolderReadme(Folders[i])],
                      <<35>>)

-----------------------------------------------------------------------------
(* Statistics (background.ts updateDailySubmissions, utils/streak.ts).     *)

NoDate == -1000       \* the empty / missing date: no day of a run is this one

RetentionDays == 365

Difficulties == {"easy", "medium", "hard"}
NoDifficulty == "none"

Bump(difficulty, which) == IF difficulty = which THEN 1 ELSE 0

\* a faulty lookup: an empty bucket is pushed whether or not one is there
WithTodayAlwaysPush(daily, today) ==
    Append(daily, [date |-> today, submissions |-> 0,
                   easy |-> 0, medium |-> 0, hard |-> 0])

\* background.ts 125-134: find today's bucket, or push an empty one
WithToday(daily, today) ==
    IF \E i \in DOMAIN daily : daily[i].date = today
    THEN daily
    ELSE Append(daily, [date |-> today, submissions |-> 0,
                        easy |-> 0, medium |-> 0, hard |-> 0])

\* Array.prototype.find: the first bucket of the date
FindIndex(daily, today) ==
    CHOOSE i \in DOMAIN daily :
        /\ daily[i].date = today
        /\ \A j \in 1..(i - 1) : daily[j].date # today

\* background.ts 137-142: count the submission in today's bucket
CountInBucket(daily, today, difficulty) ==
    LET all == WithToday(daily, today)
        i == FindIndex(all, today)
    IN  [all EXCEPT ![i] =
            [date |-> @.date,
             submissions |-> @.submissions + 1,
             easy |-> @.easy + Bump(difficulty, "easy"),
             medium |-> @.medium + Bump(difficulty, "medium"),
             hard |-> @.hard + Bump(difficulty, "hard")]]

\* background.ts 151-155: new Date(d.date) is midnight of d.date, oneYearAgo
\* is the current instant 365 days earlier: a bucket dated exactly 365 days
\* back is kept only when the clock reads midnight sharp
KeepBucket(bucket, cbDay, atMidnight) ==
    \/ bucket.date > cbDay - RetentionDays
    \/ bucket.date = cbDay - RetentionDays /\ atMidnight

\* background.ts 153-155: dailySubmissions.filter(...)
RECURSIVE FilterRecent(_, _, _)
FilterRecent(daily, cbDay, atMidnight) ==
    IF daily = <<>> THEN <<>>
    ELSE IF KeepBucket(Head(daily), cbDay, atMidnight)
         THEN <<Head(daily)>> \o FilterRecent(Tail(daily), cbDay, atMidnight)
    ELSE FilterRecent(Tail(daily), cbDay, atMidnight)

\* background.ts 119-170: what updateDailySubmissions writes, from what it
\* read (result), the date it took (today) and the clock at the callback
DailyUpdate(result, today, difficulty, cbDay, atMidnight) ==
    LET counted == CountInBucket(result.dailySubmissions, today, difficulty)
    IN  [dailySubmissions |-> FilterRecent(counted, cbDay, atMidnight),
         totalSolved |-> result.totalSolved + 1,
         easy |-> result.easy + Bump(difficulty, "easy"),
         medium |-> result.medium + Bump(difficulty, "medium"),
         hard |-> result.hard + Bump(difficulty, "hard"),
         lastSubmissionDate |-> today]

Max(a, b) == IF a >= b THEN a ELSE b

\* streak.ts 60-62: setDate(getDate() - 1) steps back one day of the local
\* calendar, toISOString reads the result in UTC.  The step is 24 hours,
\* but 25 (23) across the end (start) of daylight saving time in the local
\* zone: the date read is then two days back when the UTC clock is in its
\* first hour, today's when it is in its last.
DstCases == {"none", "ended", "started"}

Yesterday(today, dst) ==
    IF dst = "ended" THEN today - 2
    ELSE IF dst = "started" THEN today
    ELSE today - 1

\* a faulty guard: the same-day return left out
NeverPushedToday(data, today) == FALSE

\* streak.ts 51: the day was already counted
AlreadyPushedToday(data, today) == data.lastPushDate = today

\* streak.ts 58-67
NewStreak(data, today, dst) ==
    IF data.lastPushDate # NoDate /\ data.lastPushDate = Yesterday(today, dst)
    THEN data.streak + 1
    ELSE 1

\* a faulty write: the longest streak overwritten by the current one
StreakUpdateNoMax(data, today, dst) ==
    [streak |-> NewStreak(data, today, dst),
     lastPushDate |-> today,
     longestStreak |-> NewStreak(data, today, dst)]

\* streak.ts 69-76: what updateStreak writes when the day is a new one
StreakUpdate(data, today, dst) ==
    [streak |-> NewStreak(data, today, dst),
     lastPushDate |-> today,
     longestStreak |-> Max(NewStreak(data, today, dst), data.longestStreak)]

\* streak.ts 15-44
achievements ==
    << [id |-> "streak-7", min |-> 7],
       [id |-> "streak-30", min |-> 30],
       [id |-> "streak-50", min |-> 50],
       [id |-> "streak-100", min |-> 100] >>

\* streak.ts 92-97: the ids newly unlocked by a streak
NewAchievements(unlocked, currentStreak) ==
    {achievements[i].id : i \in
        {j \in DOMAIN achievements :
            /\ achievements[j].id \notin unlocked
            /\ currentStreak >= achievements[j].min}}


-----------------------------------------------------------------------------
(* The state.                                                              *)

\* the runs of the two alarm handlers, after the slots of the messages
DailyCheckSlot == MaxHandlers + 1
RepoCheckSlot == MaxHandlers + 2
AlarmSlots == {DailyCheckSlot, RepoCheckSlot}

Slots == 1..MaxHandlers

NoService == [live |-> FALSE]

\* new GitHubService(config)
Service(config) ==
    [live |-> TRUE, token |-> config.token, owner |-> config.owner,
     repo |-> config.repo]

\* the values a GITHUB_CONFIG_UPDATED message or the settings page may carry:
\* an account and a repository, the same with an empty token, the same
\* account with another repository, and with a repository it cannot push to
Configs ==
    {[token |-> "token-1", owner |-> "owner-1", repo |-> "repo-1"],
     [token |-> "", owner |-> "owner-1", repo |-> "repo-1"],
     [token |-> "token-1", owner |-> "owner-1", repo |-> "repo-2"],
     [token |-> "token-1", owner |-> "owner-1", repo |-> "repo-ro"]}

\* the keys the settings page keeps in chrome.storage.local
NoSettings ==
    [github_token |-> "", githubUser |-> "", githubRepo |-> "",
     notifications |-> FALSE, repoCheck |-> FALSE]

Stored(config) ==
    [NoSettings EXCEPT !.github_token = config.token,
                       !.githubUser = config.owner,
                       !.githubRepo = config.repo]

\* A document, as the extractors look at it: title is the text of the first
\* title element that has text, slug the part of the address after
\* /problems/ or /problem/, docTitle is document.title, code the text of
\* the first editor that has text, language the text of the language
\* element or selected option (on LeetCode also the lang parameter of the
\* address); <<>> stands for what is not there.
Problems ==
    { [title |-> <<"T","w","o"," ","S","u","m">>,
       slug |-> <<"t","w","o","-","s","u","m">>,
       docTitle |-> <<"T","w","o"," ","S","u","m"," ","-"," ","L","C">>,
       code |-> <<112, 233>>,
       language |-> <<"P","y","t","h","o","n">>,
       difficulty |-> "easy"],
      [title |-> <<"A","_","1">>,
       slug |-> <<"a","-","1">>,
       docTitle |-> <<>>,
       code |-> <<120, 61, 8364, 55357, 56832, 10>>,
       language |-> <<"c","o","b","o","l">>,
       difficulty |-> NoDifficulty],
      [title |-> <<"3","S","u","m">>,
       slug |-> <<"3","s","u","m">>,
       docTitle |-> <<>>,
       code |-> <<97, 55357>>,
       language |-> <<"J","a","v","a">>,
       difficulty |-> "hard"] }

\* documents with every combination of what can be missing
Documents ==
    [title : {<<>>, <<" ","T","w","o"," ","S","u","m"," ">>, <<"!","?">>},
     slug : {<<>>, <<"t","w","o","-","s","u","m">>, <<"A","1">>},
     docTitle : {<<>>, <<"3","S","u","m"," ","-"," ","L","C">>},
     code : {<<>>, <<10, 112, 233, 32>>, <<32>>},
     language : {<<>>, <<"P","y","t","h","o","n">>},
     difficulty : {"easy"}]

\* the success signals of a document (streak.ts 247-273)
DomStates ==
    { {}, {"class:success", "text:Accepted"} }

TabPlatforms == {Leetcode, Unknown}

EmptyStore ==
    [dailySubmissions |-> <<>>, totalSolved |-> 0, easy |-> 0, medium |-> 0,
     hard |-> 0, lastSubmissionDate |-> NoDate,
     streak |-> 0, lastPushDate |-> NoDate, longestStreak |-> 0,
     unlockedAchievements |-> {},
     dailyData |-> <<>>, lastUpdated |-> NoDate,
     settings |-> NoSettings]

NoData == [none |-> TRUE]

IdleHandler ==
    [pc |-> "idle", data |-> NoData, svc |-> NoService, path |-> <<>>,
     sha |-> NoSha, today |-> NoDate, snap |-> NoData,
     streak |-> 0, newAchievements |-> {},
     note |-> "none", error |-> "none", code |-> "none",
     counted |-> FALSE, streaked |-> FALSE]

Busy(h) == handlers[h].pc # "idle"

\* the lowest free slot takes the next message
FreeSlot == CHOOSE h \in Slots : ~Busy(h) /\ \A g \in Slots : g < h => Busy(g)

Step(h, changes) == handlers' = [handlers EXCEPT ![h] = changes]

\* an injected failure of a storage or transport call
Fault == /\ hist.faults < hist.limit.faults
         /\ hist' = [hist EXCEPT !.faults = @ + 1]

-----------------------------------------------------------------------------
(* Content script: SubmissionDetector.                                     *)

\* streak.ts 243-278
isSuccessfulSubmission(platform, dom) ==
    IF platform = Leetcode
    THEN dom \cap {"class:success", "class:text-green", "text:Accepted",
                   "text:Success", "text:Runtime:", "text:Memory:"} # {}
    ELSE IF platform = Codeforces
    THEN dom \cap {"text:Accepted", "class:accepted"} # {}
    ELSE IF platform = Codechef
    THEN dom \cap {"text:Success", "text:Accepted", "class:success"} # {}
    ELSE FALSE

\* streak.ts 566-579 and 628-641: the address, then the title element
extractOtherProblemId(doc) ==
    IF Prefix(doc.slug, Range(Upper) \cup Digits) # <<>>
    THEN ToLowerCase(Prefix(doc.slug, Range(Upper) \cup Digits))
    ELSE IF doc.title # <<>> THEN Slug(doc.title)
    ELSE Unknown

\* the order of the last three strategies exchanged: document.title before
\* the address
extractLeetCodeProblemIdTitleFirst(doc, stamp) ==
    LET fromUrl == [i \in DOMAIN doc.slug |->
                      IF doc.slug[i] = "-" THEN " " ELSE doc.slug[i]]
        fromDocTitle ==
            Strip(Prefix(doc.docTitle, Range(doc.docTitle) \ {"-"}), Space)
        title ==
            IF Strip(doc.title, Space) # <<>> THEN Strip(doc.title, Space)
            ELSE IF fromDocTitle # <<>> THEN fromDocTitle
            ELSE IF fromUrl # <<>> THEN fromUrl
            ELSE <<"l","e","e","t","c","o","d","e","-",
                   "p","r","o","b","l","e","m","-">> \o Decimal(stamp)
    IN  Slug(title)

\* streak.ts 347-434: the title selectors, the address, document.title, the
\* time of the call
extractLeetCodeProblemId(doc, stamp) ==
    LET fromUrl == [i \in DOMAIN doc.slug |->
                      IF doc.slug[i] = "-" THEN " " ELSE doc.slug[i]]
        fromDocTitle ==
            Strip(Prefix(doc.docTitle, Range(doc.docTitle) \ {"-"}), Space)
        title ==
            IF Strip(doc.title, Space) # <<>> THEN Strip(doc.title, Space)
            ELSE IF fromUrl # <<>> THEN fromUrl
            ELSE IF fromDocTitle # <<>> THEN fromDocTitle
            ELSE <<"l","e","e","t","c","o","d","e","-",
                   "p","r","o","b","l","e","m","-">> \o Decimal(stamp)
    IN  Slug(title)

\* streak.ts 436-473, 581-598, 643-659: the extractor of the code throws
\* when it finds no text; on LeetCode the text is trimmed first
CodeThrows(platform, doc) ==
    IF platform = Leetcode THEN Strip(doc.code, SpaceUnits) = <<>>
    ELSE doc.code = <<>>

\* streak.ts 475-506: on LeetCode a missing language becomes javascript;
\* 600-614, 661-675: elsewhere the extractor throws
LanguageThrows(platform, doc) ==
    platform # Leetcode /\ doc.language = <<>>

extractLanguage(platform, doc) ==
    IF platform = Leetcode /\ Strip(doc.language, Space) = <<>>
    THEN <<"j","a","v","a","s","c","r","i","p","t">>
    ELSE IF platform = Leetcode THEN ToLowerCase(Strip(doc.language, Space))
    ELSE ToLowerCase(doc.language)

\* streak.ts 289, 298, 305: the extractor of the platform
extractProblemId(platform, doc, stamp) ==
    IF platform = Leetcode THEN extractLeetCodeProblemId(doc, stamp)
    ELSE extractOtherProblemId(doc)

\* streak.ts 322: '// Code extraction failed'
CodeExtractionFailed ==
    <<47, 47, 32, 67, 111, 100, 101, 32, 101, 120, 116, 114, 97, 99, 116,
      105, 111, 110, 32, 102, 97, 105, 108, 101, 100>>

\* streak.ts 280-326.  The record is built in one expression inside the
\* try: when an extractor throws, no field is assigned and the catch block
\* fills problemId, code and language in.  stamp is Date.now().
extractSubmissionData(pg, stamp) ==
    IF pg.platform \notin SupportedPlatforms
    THEN [platform |-> pg.platform, problemId |-> <<>>, code |-> <<>>,
          language |-> <<>>, difficulty |-> NoDifficulty]
    ELSE IF CodeThrows(pg.platform, pg.problem)
            \/ LanguageThrows(pg.platform, pg.problem)
    THEN [platform |-> pg.platform,
          problemId |-> Unknown \o <<"-">> \o Decimal(stamp),
          code |-> CodeExtractionFailed,
          language |-> Unknown,
          difficulty |-> NoDifficulty]
    ELSE [platform |-> pg.platform,
          problemId |-> extractProblemId(pg.platform, pg.problem, stamp),
          code |-> Strip(pg.problem.code, SpaceUnits),
          language |-> extractLanguage(pg.platform, pg.problem),
          difficulty |-> IF pg.platform = Leetcode
                         THEN pg.problem.difficulty ELSE NoDifficulty]

\* background.ts 60: the message of the error thrown
NotInitialized == "GitHub service not initialized. Please check your settings."

\* a faulty start: without the test of line 59 the call on null throws a
\* TypeError inside the try block
StartedUnchecked(data) ==
    IF ~service.live
    THEN [IdleHandler EXCEPT !.pc = "failed", !.data = data,
            !.note = "failure", !.error = "TypeError"]
    ELSE IF ~PlatformSupported(data.platform)
    THEN [IdleHandler EXCEPT !.pc = "failed", !.data = data, !.svc = service,
            !.note = "failure", !.error = "GitHubError",
            !.code = "INVALID_PLATFORM"]
    ELSE [IdleHandler EXCEPT !.pc = "check", !.data = data, !.svc = service,
            !.path = getFilePath(data.platform, data.problemId, data.language)]

\* background.ts 58-72 up to the first remote request.  The throw of line 60
\* is outside the try: it raises no notification.  getFilePath throws inside
\* it, and the catch block (100-109) raises the failure notification.
Started(data) ==
    IF ~service.live
    THEN [IdleHandler EXCEPT !.pc = "failed", !.data = data,
            !.error = NotInitialized]
    ELSE IF ~PlatformSupported(data.platform)
    THEN [IdleHandler EXCEPT !.pc = "failed", !.data = data, !.svc = service,
            !.note = "failure", !.error = "GitHubError",
            !.code = "INVALID_PLATFORM"]
    ELSE [IdleHandler EXCEPT !.pc = "check", !.data = data, !.svc = service,
            !.path = getFilePath(data.platform, data.problemId, data.language)]

\* the message sent by sendToBackground (streak.ts 328-334) as the background
\* listener takes it (background.ts 203-207)
Forward ==
    /\ hist.sent < hist.limit.msgs
    /\ \E h \in Slots : ~Busy(h)
    /\ hist.limit.overlap \/ \A h \in Slots : ~Busy(h)
    /\ \E stamp \in {hist.sent, hist.sent + 1} :
          Step(FreeSlot, Started(extractSubmissionData(page', stamp)))

\* the data a NEW_SUBMISSION message may carry: the listener takes the
\* message of any sender (background.ts 202-207)
Messages ==
    [platform : SupportedPlatforms \cup {Unknown},
     problemId : { <<"T","w","o"," ","S","u","m","!"," ","(","E","a","s","y",")">>,
                   <<"t","w","o","-","s","u","m">>,
                   <<"A","_","1">>,
                   <<"-","-","a"," "," ","b","-","-">>,
                   <<"!","!">> },
     code : {<<112, 233>>},
     language : { <<"P","y","t","h","o","n">>, <<"C","+","+">>,
                  <<"c","o","b","o","l">>, <<>> },
     difficulty : {"easy"}]

\* background.ts 202-207: the listener takes a NEW_SUBMISSION message
Receive(data) ==
    /\ hist.sent < hist.limit.msgs
    /\ \E h \in Slots : ~Busy(h)
    /\ hist.limit.overlap \/ \A h \in Slots : ~Busy(h)
    /\ Step(FreeSlot, Started(data))
    /\ hist' = [hist EXCEPT !.sent = @ + 1]
    /\ UNCHANGED <<now, page, service, store, remote>>

\* streak.ts 230-235: the MutationObserver callback on a batch of mutations
\* that leaves the document with the signals dom.  A submission is accepted
\* when the signals appear.
MutationBatch(dom) ==
    LET was == isSuccessfulSubmission(page.platform, page.dom)
        is == isSuccessfulSubmission(page.platform, dom)
    IN  /\ page' = [page EXCEPT !.dom = dom]
        /\ IF is
           THEN /\ Forward
                /\ hist' = [hist EXCEPT
                              !.sent = @ + 1,
                              !.actual = IF was THEN @ ELSE @ + 1]
           ELSE UNCHANGED <<handlers, hist>>
        /\ UNCHANGED <<now, service, store, remote>>

-----------------------------------------------------------------------------
(* Background: handleNewSubmission, one step per awaited call.             *)

\* background.ts 100-115: the catch block raises the failure notification
Failed(h) ==
    Step(h, [handlers[h] EXCEPT !.pc = "failed", !.note = "failure",
                                !.error = "Error"])

\* a failure inside the repository client that is logged and not thrown
\* again: the handling goes on as if the file were saved
ClientFailedSwallowed(h, code) ==
    Step(h, [handlers[h] EXCEPT !.pc = "saved",
                                !.error = "GitHubError", !.code = code])

\* a failure inside the repository client: the GitHubError it throws
\* reaches the catch block of handleNewSubmission
ClientFailed(h, code) ==
    Step(h, [handlers[h] EXCEPT !.pc = "failed", !.note = "failure",
                                !.error = "GitHubError", !.code = code])

\* github.ts 248-262 checkFileExists, then the branch of saveSolution
CheckFileExists(h) ==
    /\ handlers[h].pc = "check"
    /\ \/ /\ UNCHANGED hist
          /\ Step(h, [handlers[h] EXCEPT !.pc =
                IF GetContentStatus(remote, handlers[h].svc.repo,
                                    handlers[h].path) = 404
                THEN "put" ELSE "getsha"])
       \/ Fault /\ ClientFailed(h, handleGitHubError(NoResponse))
    /\ UNCHANGED <<now, page, service, store, remote>>

\* github.ts 278-288: updateFile reads the file again for its sha
UpdateFileGetContent(h) ==
    /\ handlers[h].pc = "getsha"
    /\ \/ /\ UNCHANGED hist
          /\ IF GetContentStatus(remote, handlers[h].svc.repo,
                                 handlers[h].path) = 404
             THEN ClientFailed(h, handleGitHubError(404))
             ELSE Step(h, [handlers[h] EXCEPT !.pc = "put",
                       !.sha = GetContentSha(remote, handlers[h].svc.repo,
                                             handlers[h].path)])
       \/ Fault /\ ClientFailed(h, handleGitHubError(NoResponse))
    /\ UNCHANGED <<now, page, service, store, remote>>

\* a faulty write: the request goes to the client that is live when it is
\* sent, not to the one the call was started on
PutFileContentsLive(h) ==
    /\ handlers[h].pc = "put"
    /\ \/ /\ UNCHANGED hist
          /\ ~WellFormed(handlers[h].data.code)
          /\ ClientFailed(h, handleGitHubError(NoResponse))
          /\ UNCHANGED remote
       \/ /\ UNCHANGED hist
          /\ WellFormed(handlers[h].data.code)
          /\ remote' = PutFiles(remote, service.repo, handlers[h].path,
                          EncodeContent(handlers[h].data.code), handlers[h].sha)
          /\ IF PutStatus(remote, service.repo, handlers[h].path,
                          handlers[h].sha) \in {200, 201}
             THEN Step(h, [handlers[h] EXCEPT !.pc = "saved"])
             ELSE ClientFailed(h, handleGitHubError(
                     PutStatus(remote, service.repo, handlers[h].path,
                               handlers[h].sha)))
       \/ Fault /\ ClientFailed(h, handleGitHubError(NoResponse)) /\ UNCHANGED remote
    /\ UNCHANGED <<now, page, service, store>>

\* github.ts 264-276 createFile and 290-297 of updateFile: the request is
\* built, which throws when the content cannot be encoded, and sent
PutFileContents(h) ==
    /\ handlers[h].pc = "put"
    /\ \/ /\ UNCHANGED hist
          /\ ~WellFormed(handlers[h].data.code)
          /\ ClientFailed(h, handleGitHubError(NoResponse))
          /\ UNCHANGED remote
       \/ /\ UNCHANGED hist
          /\ WellFormed(handlers[h].data.code)
          /\ remote' = PutFiles(remote, handlers[h].svc.repo, handlers[h].path,
                          EncodeContent(handlers[h].data.code), handlers[h].sha)
          /\ IF PutStatus(remote, handlers[h].svc.repo, handlers[h].path,
                          handlers[h].sha) \in {200, 201}
             THEN Step(h, [handlers[h] EXCEPT !.pc = "saved"])
             ELSE ClientFailed(h, handleGitHubError(
                     PutStatus(remote, handlers[h].svc.repo, handlers[h].path,
                               handlers[h].sha)))
       \/ Fault /\ ClientFailed(h, handleGitHubError(NoResponse)) /\ UNCHANGED remote
    /\ UNCHANGED <<now, page, service, store>>

\* background.ts 120-123: updateDailySubmissions takes the date and reads
DailyGet(h) ==
    /\ handlers[h].pc = "saved"
    /\ \/ /\ UNCHANGED hist
          /\ Step(h, [handlers[h] EXCEPT !.pc = "dailyCb", !.today = now,
                !.snap = [dailySubmissions |-> store.dailySubmissions,
                          totalSolved |-> store.totalSolved,
                          easy |-> store.easy, medium |-> store.medium,
                          hard |-> store.hard]])
       \/ \* the read fails: the callback gets no result and throws on
          \* result.dailySubmissions, the promise is never resolved
          /\ Fault
          /\ Step(h, [handlers[h] EXCEPT !.pc = "hung"])
    /\ UNCHANGED <<now, page, service, store, remote>>

\* background.ts 123-164: the callback computes and writes
DailySet(h, atMidnight) ==
    /\ handlers[h].pc = "dailyCb"
    /\ LET w == DailyUpdate(handlers[h].snap, handlers[h].today,
                            handlers[h].data.difficulty, now, atMidnight)
       IN  \/ /\ UNCHANGED hist
              /\ store' = [store EXCEPT
                    !.dailySubmissions = w.dailySubmissions,
                    !.totalSolved = w.totalSolved,
                    !.easy = w.easy, !.medium = w.medium, !.hard = w.hard,
                    !.lastSubmissionDate = w.lastSubmissionDate]
              /\ Step(h, [handlers[h] EXCEPT !.pc = "dailyDone",
                    !.snap = NoData, !.counted = TRUE])
           \/ \* the write fails: lastError is not looked at (164-167)
              /\ Fault
              /\ UNCHANGED store
              /\ Step(h, [handlers[h] EXCEPT !.pc = "dailyDone",
                    !.snap = NoData])
    /\ UNCHANGED <<now, page, service, remote>>

\* streak.ts 47: updateStreak reads the streak keys
StreakGet(h) ==
    /\ handlers[h].pc = "dailyDone"
    /\ \/ /\ UNCHANGED hist
          /\ Step(h, [handlers[h] EXCEPT !.pc = "streakCb",
                !.snap = [streak |-> store.streak,
                          lastPushDate |-> store.lastPushDate,
                          longestStreak |-> store.longestStreak]])
       \/ Fault /\ Failed(h)
    /\ UNCHANGED <<now, page, service, store, remote>>

\* background.ts 81-86: the success notification
Notified(h, changes) ==
    Step(h, [changes EXCEPT !.pc = "notified", !.snap = NoData,
                            !.streaked = TRUE, !.note = "success"])

\* streak.ts 48-76: the date is taken after the read; same day returns.
\* dst is the case of the local clock when yesterday's date is computed,
\* which happens only when a last push date is stored and is not today.
StreakSet(h, dst) ==
    /\ handlers[h].pc = "streakCb"
    /\ IF AlreadyPushedToday(handlers[h].snap, now)
       THEN /\ dst = "none"
            /\ Notified(h, [handlers[h] EXCEPT !.today = now,
                               !.streak = handlers[h].snap.streak])
            /\ UNCHANGED <<hist, store>>
       ELSE LET w == StreakUpdate(handlers[h].snap, now, dst)
            IN  \/ /\ \/ dst = "none" /\ UNCHANGED hist
                      \/ /\ dst # "none"
                         /\ handlers[h].snap.lastPushDate # NoDate
                         /\ hist.dst < hist.limit.dst
                         /\ hist' = [hist EXCEPT !.dst = @ + 1]
                   /\ store' = [store EXCEPT !.streak = w.streak,
                                    !.lastPushDate = w.lastPushDate,
                                    !.longestStreak = w.longestStreak]
                   /\ Step(h, [handlers[h] EXCEPT !.pc = "streakDone",
                         !.today = now, !.snap = NoData,
                         !.streak = w.streak])
                \/ dst = "none" /\ Fault /\ Failed(h) /\ UNCHANGED store
    /\ UNCHANGED <<now, page, service, remote>>

\* streak.ts 88: checkAchievements reads the unlocked ids
AchievementsGet(h) ==
    /\ handlers[h].pc = "streakDone"
    /\ \/ /\ UNCHANGED hist
          /\ Step(h, [handlers[h] EXCEPT !.pc = "achCb",
                !.snap = [unlockedAchievements |-> store.unlockedAchievements]])
       \/ Fault /\ Failed(h)
    /\ UNCHANGED <<now, page, service, store, remote>>

\* streak.ts 89-105: the new ids are added and written, if there are any
AchievementsSet(h) ==
    /\ handlers[h].pc = "achCb"
    /\ LET new == NewAchievements(handlers[h].snap.unlockedAchievements,
                                  handlers[h].streak)
       IN  IF new = {}
           THEN /\ Notified(h, handlers[h])
                /\ UNCHANGED <<hist, store>>
           ELSE \/ /\ UNCHANGED hist
                   /\ store' = [store EXCEPT !.unlockedAchievements =
                          handlers[h].snap.unlockedAchievements \cup new]
                   /\ Step(h, [handlers[h] EXCEPT !.pc = "achDone",
                         !.snap = NoData, !.newAchievements = new])
                \/ Fault /\ Failed(h) /\ UNCHANGED store
    /\ UNCHANGED <<now, page, service, remote>>

\* streak.ts 105, 81-84 and background.ts 78-86 once the write is done
AchievementsDone(h) ==
    /\ handlers[h].pc = "achDone"
    /\ Notified(h, handlers[h])
    /\ UNCHANGED <<now, page, service, store, remote, hist>>

\* background.ts 89-96 and 205-206: the achievement notifications, then the
\* answer to the sender: success after "notified", an error after "failed"
SendResponse(h) ==
    /\ handlers[h].pc \in {"notified", "failed"}
    /\ Step(h, IdleHandler)
    /\ hist' = [hist EXCEPT
          !.ok = IF handlers[h].pc = "notified" THEN @ + 1 ELSE @,
          !.errors = IF handlers[h].pc = "failed" THEN @ + 1 ELSE @]
    /\ UNCHANGED <<now, page, service, store, remote>>

-----------------------------------------------------------------------------
(* Background: GITHUB_CONFIG_UPDATED (background.ts 210-220).              *)

\* The constructor (github.ts 25-32) throws on an empty token: the listener
\* ends at line 216, githubService keeps its value and sendResponse is not
\* reached.
ConfigUpdated(config) ==
    /\ config \in hist.limit.configs
    /\ IF config.token = ""
       THEN /\ service' = service
            /\ hist' = [hist EXCEPT !.config = [data |-> config, reply |-> "none"]]
       ELSE /\ service' = Service(config)
            /\ hist' = [hist EXCEPT
                          !.config = [data |-> config, reply |-> "success"]]
    /\ UNCHANGED <<now, page, handlers, store, remote>>

-----------------------------------------------------------------------------
(* Settings page (src/unnamed/part_003): the token captured from the URL   *)
(* (67-77), the preference-saving effect (107-117) and handleSetup         *)
(* (138-162) leave github_token, githubUser and githubRepo in the store.   *)
(* handleSetup refuses to run without a token (141-143).  Nothing here     *)
(* sends a message to the background.  githubRepo is stored when setupRepo *)
(* returns (151-155); when it throws, the token and the user stay stored.  *)
(* The requests of setupRepo are taken as one step and are all answered.   *)

handleSetup(config, isNew) ==
    LET done == setupRepo(remote, config.repo, isNew)
    IN  /\ config \in hist.limit.configs
        /\ config.token # ""
        /\ hist.limit.overlap \/ \A h \in Slots : ~Busy(h)
        /\ remote' = done.files
        /\ store' = [store EXCEPT !.settings =
                        IF done.code = "none"
                        THEN [@ EXCEPT !.github_token = config.token,
                                       !.githubUser = config.owner,
                                       !.githubRepo = config.repo]
                        ELSE [@ EXCEPT !.github_token = config.token,
                                       !.githubUser = config.owner]]
        /\ UNCHANGED <<now, page, service, handlers, hist>>

\* a page calls createRepositoryWithStructure (github.ts 34-93) on a client
\* built from config
CreateRepository(config) ==
    /\ config \in hist.limit.configs
    /\ config.token # ""
    /\ \A h \in Slots : ~Busy(h)
    /\ remote' = createRepositoryWithStructure(remote, config.repo).files
    /\ UNCHANGED <<now, page, service, handlers, store, hist>>

-----------------------------------------------------------------------------
(* Popup: the "+1 Manual Boost" button (App.tsx 143-156).  The popup's     *)
(* state mirrors the store (App.tsx 194-226).                              *)

ManualBoost ==
    /\ hist.boosts < hist.limit.boosts
    /\ hist.limit.overlap \/ \A h \in Slots : ~Busy(h)
    /\ store' = [store EXCEPT
          !.streak = @ + 1,
          !.lastUpdated = now,
          !.dailyData = SelectSeq(@, LAMBDA d : d.date # now)
                          \o <<[date |-> now, solved |-> 1, difficulty |-> "E"]>>,
          !.easy = @ + 1]
    /\ hist' = [hist EXCEPT !.boosts = @ + 1]
    /\ UNCHANGED <<now, page, service, handlers, remote>>

-----------------------------------------------------------------------------
(* Settings page: the preferences (src/unnamed/part_003 196-217).          *)

\* a check box is changed and the effect of part_003 105-117 stores the
\* preferences
SavePreferences(notifications, repoCheck) ==
    /\ hist.prefs < hist.limit.prefs
    /\ store' = [store EXCEPT !.settings.notifications = notifications,
                              !.settings.repoCheck = repoCheck]
    /\ hist' = [hist EXCEPT !.prefs = @ + 1]
    /\ UNCHANGED <<now, page, service, handlers, remote>>

-----------------------------------------------------------------------------
(* Background: the alarms (background.ts 41-55, 172-199).                  *)

\* the dailyCheck alarm fires: background.ts 174 reads the preference
DailyCheckGet ==
    /\ hist.alarms < hist.limit.alarms
    /\ handlers[DailyCheckSlot].pc = "idle"
    /\ Step(DailyCheckSlot, [IdleHandler EXCEPT !.pc = "stats",
          !.snap = [notifications |-> store.settings.notifications]])
    /\ hist' = [hist EXCEPT !.alarms = @ + 1]
    /\ UNCHANGED <<now, page, service, store, remote>>

\* background.ts 177, streak.ts 108-120: getStreakStats reads the streak keys
DailyCheckStats ==
    /\ handlers[DailyCheckSlot].pc = "stats"
    /\ Step(DailyCheckSlot, [handlers[DailyCheckSlot] EXCEPT !.pc = "remind",
          !.snap = [notifications |-> @.notifications,
                    streak |-> store.streak,
                    lastPushDate |-> store.lastPushDate]])
    /\ UNCHANGED <<now, page, service, store, remote, hist>>

\* background.ts 178-188: the date is taken after the reads, the reminder
\* is raised
DailyCheckNotify ==
    /\ handlers[DailyCheckSlot].pc = "remind"
    /\ Step(DailyCheckSlot, IdleHandler)
    /\ hist' = IF /\ handlers[DailyCheckSlot].snap.notifications
                  /\ handlers[DailyCheckSlot].snap.lastPushDate # now
               THEN [hist EXCEPT !.reminders = @ + 1]
               ELSE hist
    /\ UNCHANGED <<now, page, service, store, remote>>

handleDailyCheck ==
    \/ DailyCheckGet
    \/ DailyCheckStats
    \/ DailyCheckNotify

\* background.ts 192-199: the repoCheck alarm fires; the handler reads three
\* keys and writes a line to the console
handleRepoCheck ==
    /\ hist.alarms < hist.limit.alarms
    /\ hist' = [hist EXCEPT !.alarms = @ + 1]
    /\ UNCHANGED <<now, page, service, handlers, store, remote>>

\* The handler of the other background script of the repository
\* (src/unnamed/part_002 113-140), which reads the keys the settings page
\* writes.  Line 114: the alarm fires and the keys are read.
RepoCheckGet ==
    /\ hist.alarms < hist.limit.alarms
    /\ handlers[RepoCheckSlot].pc = "idle"
    /\ Step(RepoCheckSlot, [IdleHandler EXCEPT !.pc = "verify",
          !.snap = [repoCheck |-> store.settings.repoCheck,
                    githubUser |-> store.settings.githubUser,
                    githubRepo |-> store.settings.githubRepo]])
    /\ hist' = [hist EXCEPT !.alarms = @ + 1]
    /\ UNCHANGED <<now, page, service, store, remote>>

\* part_002 116-125: the tests, then verifyRepoAccess on the client; an
\* error is caught and logged (137-139)
RepoCheckVerify ==
    LET snap == handlers[RepoCheckSlot].snap
        access == verifyRepoAccess(remote, service.repo)
    IN  /\ handlers[RepoCheckSlot].pc = "verify"
        /\ IF /\ snap.repoCheck /\ snap.githubUser # "" /\ snap.githubRepo # ""
              /\ service.live /\ access.code = "none" /\ access.push
           THEN Step(RepoCheckSlot,
                     [handlers[RepoCheckSlot] EXCEPT !.pc = "count",
                                                     !.snap = NoData])
           ELSE Step(RepoCheckSlot, IdleHandler)
        /\ UNCHANGED <<now, page, service, store, remote, hist>>

\* part_002 126: totalSolved is read
RepoCheckCount ==
    /\ handlers[RepoCheckSlot].pc = "count"
    /\ Step(RepoCheckSlot, [handlers[RepoCheckSlot] EXCEPT !.pc = "countCb",
          !.snap = [totalSolved |-> store.totalSolved]])
    /\ UNCHANGED <<now, page, service, store, remote, hist>>

\* part_002 127-135: one more is written, the notification is raised
RepoCheckSet ==
    /\ handlers[RepoCheckSlot].pc = "countCb"
    /\ store' = [store EXCEPT
          !.totalSolved = handlers[RepoCheckSlot].snap.totalSolved + 1]
    /\ Step(RepoCheckSlot, IdleHandler)
    /\ UNCHANGED <<now, page, service, remote, hist>>

handleRepoCheckActivity ==
    \/ RepoCheckGet
    \/ RepoCheckVerify
    \/ RepoCheckCount
    \/ RepoCheckSet

-----------------------------------------------------------------------------
(* Background: GET_SUBMISSION_STATS (background.ts 222-236).               *)

\* the answer is built from the read, and the time of the request is kept
\* in the store
GetSubmissionStatsTouching ==
    /\ hist.reads < hist.limit.reads
    /\ store' = [store EXCEPT !.lastUpdated = now]
    /\ hist' = [hist EXCEPT
          !.reads = @ + 1,
          !.stats = [success |-> TRUE,
                     data |-> [dailySubmissions |-> store.dailySubmissions,
                               totalSolved |-> store.totalSolved,
                               easy |-> store.easy, medium |-> store.medium,
                               hard |-> store.hard]]]
    /\ UNCHANGED <<now, page, service, handlers, remote>>

\* the answer is built in the callback of the read
GetSubmissionStats ==
    /\ hist.reads < hist.limit.reads
    /\ hist' = [hist EXCEPT
          !.reads = @ + 1,
          !.stats = [success |-> TRUE,
                     data |-> [dailySubmissions |-> store.dailySubmissions,
                               totalSolved |-> store.totalSolved,
                               easy |-> store.easy, medium |-> store.medium,
                               hard |-> store.hard]]]
    /\ UNCHANGED <<now, page, service, handlers, store, remote>>

-----------------------------------------------------------------------------
(* The clock.                                                              *)

DaySteps == {1, 3}

Tick(days) ==
    /\ hist.ticks < hist.limit.ticks
    /\ hist.limit.overlap \/ \A h \in Slots : ~Busy(h)
    /\ now' = now + days
    /\ hist' = [hist EXCEPT !.ticks = @ + 1]
    /\ UNCHANGED <<page, service, handlers, store, remote>>

-----------------------------------------------------------------------------

\* a fresh installation
Fresh == [store |-> EmptyStore, remote |-> {}, service |-> NoService]

FirstDocument == CHOOSE p \in Problems : p.difficulty = "easy"

FirstProblem ==
    extractSubmissionData(
        [platform |-> Leetcode, dom |-> {}, problem |-> FirstDocument], 0)
FirstConfig == CHOOSE c \in Configs : c.token # "" /\ c.repo = "repo-1"

\* an installation on which the first problem was submitted once a day for
\* the last six days
RECURSIVE DailyRun(_, _)
DailyRun(first, last) ==
    IF first > last THEN <<>>
    ELSE <<[date |-> first, submissions |-> 1,
            easy |-> 1, medium |-> 0, hard |-> 0]>> \o DailyRun(first + 1, last)

SixDays ==
    [store |-> [EmptyStore EXCEPT
                  !.dailySubmissions = DailyRun(-6, -1),
                  !.totalSolved = 6, !.easy = 6, !.lastSubmissionDate = -1,
                  !.streak = 6, !.lastPushDate = -1, !.longestStreak = 6,
                  !.settings = Stored(FirstConfig)],
     remote |-> initializeFolders(AutoInit(FirstConfig.repo), FirstConfig.repo).files
                \cup {[repo |-> FirstConfig.repo,
                       path |-> getFilePath(Leetcode, FirstProblem.problemId,
                                            FirstProblem.language),
                       bytes |-> Utf8Bytes(FirstProblem.code)]},
     service |-> Service(FirstConfig)]

\* a fresh installation of an account that can read a repository of
\* another owner
Shared ==
    [store |-> EmptyStore, remote |-> AutoInit("repo-ro"),
     service |-> NoService]

\* an installation first used a year ago (days -365 and -364), used again
\* yesterday, its streak then raised by 27 clicks on "+1 Manual Boost"
Boosted ==
    [store |-> [EmptyStore EXCEPT
                  !.dailySubmissions =
                      DailyRun(-365, -364) \o DailyRun(-1, -1),
                  !.totalSolved = 3, !.easy = 30, !.lastSubmissionDate = -1,
                  !.streak = 28, !.lastPushDate = -1, !.longestStreak = 2,
                  !.dailyData = <<[date |-> -1, solved |-> 1,
                                   difficulty |-> "E"]>>,
                  !.lastUpdated = -1,
                  !.settings = Stored(FirstConfig)],
     remote |-> SixDays.remote,
     service |-> Service(FirstConfig)]

StartOn(pages, installs, limit) ==
    /\ now = 0
    /\ page \in pages
    /\ \E i \in installs :
          /\ service = i.service
          /\ store = i.store
          /\ remote = i.remote
    /\ handlers = [h \in Slots \cup AlarmSlots |-> IdleHandler]
    /\ hist = [actual |-> 0, sent |-> 0, ok |-> 0, errors |-> 0,
               ticks |-> 0, faults |-> 0,
               boosts |-> 0, dst |-> 0, solved0 |-> store.totalSolved,
               alarms |-> 0, prefs |-> 0, reads |-> 0,
               reminders |-> 0, stats |-> NoData,
               config |-> IF service.live
                          THEN [data |-> FirstConfig, reply |-> "success"]
                          ELSE [data |-> NoData, reply |-> "none"],
               limit |-> limit]

Start(installs, limit) ==
    StartOn([platform : TabPlatforms, dom : {{}}, problem : Problems],
            installs, limit)

\* handlings may overlap
Init ==
    Start({Fresh, SixDays},
          [msgs |-> MaxMsgs, ticks |-> MaxTicks, faults |-> MaxFaults,
           boosts |-> MaxBoosts, dst |-> MaxDst, overlap |-> TRUE,
           configs |-> {FirstConfig}])

\* one operation at a time
SeqInit ==
    Start({Fresh, SixDays},
          [msgs |-> SeqMsgs, ticks |-> SeqTicks, faults |-> SeqFaults,
           boosts |-> SeqBoosts, dst |-> SeqDst, overlap |-> FALSE,
           configs |-> {FirstConfig}])

\* handlings may overlap, on the installation with the long history
OldInit ==
    Start({Boosted},
          [msgs |-> OldMsgs, ticks |-> OldTicks, faults |-> OldFaults,
           boosts |-> OldBoosts, dst |-> OldDst, overlap |-> TRUE,
           configs |-> {FirstConfig}])

\* one operation at a time, with every kind of configuration message and
\* every configuration the settings page can store
ConfigInit ==
    Start({Fresh, SixDays},
          [msgs |-> CfgMsgs, ticks |-> CfgTicks, faults |-> CfgFaults,
           boosts |-> CfgBoosts, dst |-> CfgDst, overlap |-> FALSE,
           configs |-> Configs])

HandlerStep(h) ==
    \/ CheckFileExists(h)
    \/ UpdateFileGetContent(h)
    \/ PutFileContents(h)
    \/ DailyGet(h)
    \/ \E atMidnight \in BOOLEAN : DailySet(h, atMidnight)
    \/ StreakGet(h)
    \/ \E dst \in DstCases : StreakSet(h, dst)
    \/ AchievementsGet(h)
    \/ AchievementsSet(h)
    \/ AchievementsDone(h)
    \/ SendResponse(h)

Next ==
    \/ \E dom \in DomStates : MutationBatch(dom)
    \/ \E h \in Slots : HandlerStep(h)
    \/ \E config \in Configs : ConfigUpdated(config)
    \/ \E config \in Configs, isNew \in BOOLEAN : handleSetup(config, isNew)
    \/ ManualBoost
    \/ \E days \in DaySteps : Tick(days)

Spec == Init /\ [][Next]_vars

SeqSpec == SeqInit /\ [][Next]_vars

OldSpec == OldInit /\ [][Next]_vars

ConfigSpec == ConfigInit /\ [][Next]_vars

\* one operation at a time, with every way of setting a repository up
SetupInit ==
    Start({Fresh, SixDays, Shared},
          [msgs |-> CfgMsgs, ticks |-> CfgTicks, faults |-> CfgFaults,
           boosts |-> CfgBoosts, dst |-> CfgDst, overlap |-> FALSE,
           configs |-> Configs])

SetupNext ==
    \/ Next
    \/ \E config \in Configs : CreateRepository(config)

SetupSpec == SetupInit /\ [][SetupNext]_vars

\* one submission, on every platform and every kind of document
ExtractInit ==
    StartOn([platform : SupportedPlatforms, dom : {{}}, problem : Documents],
            {SixDays},
            [msgs |-> CfgMsgs, ticks |-> CfgTicks, faults |-> CfgFaults,
             boosts |-> CfgBoosts, dst |-> CfgDst, overlap |-> FALSE,
             configs |-> {FirstConfig}])

ExtractSpec == ExtractInit /\ [][Next]_vars

\* the alarms, the preferences and the statistics request, around one
\* submission
AlarmInit ==
    StartOn([platform : {Leetcode}, dom : {{}}, problem : {FirstDocument}],
            {Fresh, SixDays},
            [msgs |-> AlmMsgs, ticks |-> AlmTicks, faults |-> AlmFaults,
             boosts |-> AlmBoosts, dst |-> AlmDst, overlap |-> FALSE,
             configs |-> {FirstConfig}, alarms |-> AlmAlarms,
             prefs |-> AlmPrefs, reads |-> AlmReads])

AlarmNext ==
    \/ Next
    \/ handleDailyCheck
    \/ handleRepoCheck
    \/ handleRepoCheckActivity
    \/ \E notifications \in BOOLEAN, repoCheck \in BOOLEAN :
          SavePreferences(notifications, repoCheck)
    \/ GetSubmissionStats

AlarmSpec == AlarmInit /\ [][AlarmNext]_vars

\* the background alone, given messages of every kind
DirectInit ==
    Start({SixDays},
          [msgs |-> DirMsgs, ticks |-> 0, faults |-> DirFaults,
           boosts |-> 0, dst |-> 0, overlap |-> FALSE,
           configs |-> {FirstConfig}])

DirectNext ==
    \/ \E data \in Messages : Receive(data)
    \/ \E h \in Slots : HandlerStep(h)

DirectSpec == DirectInit /\ [][DirectNext]_vars

-----------------------------------------------------------------------------
(* Helpers of the properties.                                              *)

AllIdle == \A h \in Slots : ~Busy(h)

Successful(dom) == isSuccessfulSubmission(page.platform, dom)

\* the text of a file, read back from its bytes as UTF-8
RECURSIVE Utf8Text(_)
Utf8Text(b) ==
    IF b = <<>> THEN <<>>
    ELSE IF b[1] < 128 THEN <<b[1]>> \o Utf8Text(Tail(b))
    ELSE IF b[1] \in 192..223 /\ Len(b) >= 2 /\ b[2] \in 128..191
         THEN <<(b[1] - 192) * 64 + (b[2] - 128)>> \o Utf8Text(SubSeq(b, 3, Len(b)))
    ELSE IF b[1] \in 224..239 /\ Len(b) >= 3 /\ b[2] \in 128..191
                              /\ b[3] \in 128..191
         THEN <<(b[1] - 224) * 4096 + (b[2] - 128) * 64 + (b[3] - 128)>>
              \o Utf8Text(SubSeq(b, 4, Len(b)))
    ELSE IF b[1] \in 240..247 /\ Len(b) >= 4 /\ b[2] \in 128..191
                              /\ b[3] \in 128..191 /\ b[4] \in 128..191
         THEN LET cp == (b[1] - 240) * 262144 + (b[2] - 128) * 4096
                        + (b[3] - 128) * 64 + (b[4] - 128)
              IN  <<55296 + ((cp - 65536) \div 1024),
                    56320 + ((cp - 65536) % 1024)>>
                  \o Utf8Text(SubSeq(b, 5, Len(b)))
    ELSE <<65533>> \o Utf8Text(Tail(b))

\* the submissions counted in the bucket(s) of a date
RECURSIVE CountOn(_, _)
CountOn(daily, date) ==
    IF daily = <<>> THEN 0
    ELSE (IF Head(daily).date = date THEN Head(daily).submissions ELSE 0)
         + CountOn(Tail(daily), date)

Dates(daily) == [i \in DOMAIN daily |-> daily[i].date]

StreakFields(st) == <<st.streak, st.lastPushDate, st.longestStreak>>

\* slot h takes the step that leaves the program point pc
Leaves(h, pc) == handlers[h].pc = pc /\ handlers'[h].pc # pc

NoFaultNow == hist'.faults = hist.faults

-----------------------------------------------------------------------------
(* C1  Edge-triggered detection: while the success predicate stays true    *)
(* from one mutation batch to the next, no further NEW_SUBMISSION is       *)
(* forwarded; one record goes out per accepted submission.                 *)

EdgeTriggered ==
    [][(Successful(page.dom) /\ Successful(page'.dom))
          => hist'.sent = hist.sent]_vars

-----------------------------------------------------------------------------
(* C2  Idempotent save: with saves following one another, a save creates   *)
(* the file when the path is absent and updates it, carrying the hash of   *)
(* the existing file, when it is there; it fails only on a transport       *)
(* failure, leaves exactly one file at the path, adds no other file, and   *)
(* the file holds the code of the latest call.  SaveOutcome(h) is the      *)
(* statement for the handling of slot h.                                   *)

SaveOutcome(h) ==
    LET a == handlers[h]
        before == FilesAt(remote, a.svc.repo, a.path)
        after == FilesAt(remote', a.svc.repo, a.path)
    IN  /\ (Leaves(h, "check") \/ Leaves(h, "getsha"))
            => (handlers'[h].pc = "failed" => ~NoFaultNow)
        /\ Leaves(h, "put") =>
            \/ ~NoFaultNow
            \/ /\ handlers'[h].pc = "saved"
               /\ (before = {}) <=> (a.sha = NoSha)
               /\ before # {} => \A f \in before : a.sha = BlobSha(f.bytes)
               /\ Cardinality(after) = 1
               /\ \A f \in after : Utf8Text(f.bytes) = a.data.code
               /\ remote' \ after = remote \ before

-----------------------------------------------------------------------------
(* C3  Duplicate captures are neutralized: totalSolved grows by at most    *)
(* one for each submission that was accepted, however often its record is  *)
(* delivered.                                                              *)

DuplicatesNeutralized ==
    store.totalSolved - hist.solved0 <= hist.actual

-----------------------------------------------------------------------------
(* C4  Concurrent events are serialized: once every handling has ended,    *)
(* and none met a failure, totalSolved has grown by the number of          *)
(* handlings that ended in success.                                        *)

NoLostUpdate ==
    (AllIdle /\ hist.faults = 0)
        => store.totalSolved - hist.solved0 = hist.ok

-----------------------------------------------------------------------------
(* C5  longestStreak >= currentStreak in every state of the store,         *)
(* whoever wrote last.                                                     *)

LongestAtLeastCurrent == store.longestStreak >= store.streak

-----------------------------------------------------------------------------
(* C6  Streak monotonicity: over a sequence of events with non-decreasing  *)
(* dates, no step lowers the stored longestStreak.                         *)

LongestNeverDecreases ==
    [][store'.longestStreak >= store.longestStreak]_vars

\* an updateStreak has reset the streak below the longest one
LongestNeverDecreasesWitness ==
    /\ store.lastPushDate = now
    /\ store.streak = 1
    /\ store.longestStreak > store.streak
    /\ hist.boosts = 0

-----------------------------------------------------------------------------
(* C7  Same-day idempotency: each event counts one more submission in the  *)
(* bucket of its date; an updateStreak on the date already stored as       *)
(* lastPushDate changes none of streak, longestStreak, lastPushDate and    *)
(* reports no new achievement.                                             *)

SameDayIdempotent ==
    [][\A h \in Slots :
        /\ (Leaves(h, "dailyCb") /\ NoFaultNow)
              => CountOn(store'.dailySubmissions, handlers[h].today)
                    = CountOn(store.dailySubmissions, handlers[h].today) + 1
        /\ (Leaves(h, "streakCb") /\ store.lastPushDate = now)
              => /\ StreakFields(store') = StreakFields(store)
                 /\ handlers'[h].pc = "notified"
                 /\ handlers'[h].newAchievements = {}
                 /\ store'.unlockedAchievements = store.unlockedAchievements
      ]_vars

\* the second event of a day has gone through updateStreak
SameDayIdempotentWitness ==
    \E h \in Slots :
        /\ handlers[h].pc = "notified"
        /\ handlers[h].today = now
        /\ store.lastPushDate = now
        /\ store.streak > 1
        /\ CountOn(store.dailySubmissions, now) = 2
        /\ hist.faults = 0 /\ hist.boosts = 0

-----------------------------------------------------------------------------
(* C8  Consecutive-day rule: an updateStreak on day D with lastPushDate    *)
(* D - 1 stores streak + 1, the larger of longestStreak and the new        *)
(* streak, and D.                                                          *)

ConsecutiveDayRule ==
    [][\A h \in Slots :
        (/\ Leaves(h, "streakCb") /\ NoFaultNow
         /\ store.lastPushDate # NoDate
         /\ store.lastPushDate = now - 1)
        => /\ store'.streak = store.streak + 1
           /\ store'.longestStreak = Max(store.longestStreak, store'.streak)
           /\ store'.lastPushDate = now
      ]_vars

-----------------------------------------------------------------------------
(* C9  Gap resets streak: an updateStreak on day D with lastPushDate empty *)
(* or before D - 1 stores streak 1 and does not lower longestStreak;       *)
(* events on days 0, 1 and 4 (2025-01-01, -02, -05) of a fresh             *)
(* installation end with streak 1 and longestStreak 2.  No local clock     *)
(* changes in the first days of January.                                   *)

ThreeEvents ==
    /\ hist.solved0 = 0 /\ hist.boosts = 0 /\ hist.faults = 0
    /\ hist.dst = 0
    /\ AllIdle /\ hist.ok = 3
    /\ Dates(store.dailySubmissions) = <<0, 1, 4>>
    /\ \A i \in DOMAIN store.dailySubmissions :
          store.dailySubmissions[i].submissions = 1

GapResetsStreak ==
    /\ [][\A h \in Slots :
            (/\ Leaves(h, "streakCb") /\ NoFaultNow
             /\ \/ store.lastPushDate = NoDate
                \/ store.lastPushDate < now - 1)
            => /\ store'.streak = 1
               /\ store'.longestStreak = Max(store.longestStreak, 1)
               /\ store'.lastPushDate = now
         ]_vars
    /\ [](ThreeEvents => (store.streak = 1 /\ store.longestStreak = 2))

-----------------------------------------------------------------------------
(* C10  Aggregation is atomic as a unit: a handling that has ended has     *)
(* either counted the submission and gone through the streak and           *)
(* achievement update, or done neither.                                    *)

AggregationAtomic ==
    \A h \in Slots :
        handlers[h].pc \in {"notified", "failed"}
            => (handlers[h].counted <=> handlers[h].streaked)

-----------------------------------------------------------------------------
(* C11  Each achievement id is reported as newly unlocked at most once:    *)
(* what a checkAchievements call returns holds no id that the store        *)
(* already lists as unlocked, and no two calls hold the same id in what    *)
(* they report.                                                            *)

UnlockedOnce ==
    /\ [][\A h \in Slots :
            Leaves(h, "achCb")
                => handlers'[h].newAchievements
                      \cap store.unlockedAchievements = {}]_vars
    /\ [](\A h, g \in Slots :
            h # g => handlers[h].newAchievements
                        \cap handlers[g].newAchievements = {})

-----------------------------------------------------------------------------
(* C12  The stored unlockedAchievements never shrinks: after every step    *)
(* the set holds all that it held before.                                  *)

UnlockedNeverShrinks ==
    [][store.unlockedAchievements \subseteq store'.unlockedAchievements]_vars

-----------------------------------------------------------------------------
(* C13  At most one bucket per date in every state of the store; an        *)
(* updateDailySubmissions call creates the bucket of its date, counting    *)
(* one submission, when what it read has none, and otherwise adds one to   *)
(* the bucket that is there.                                               *)

OneBucketPerDate ==
    /\ [](\A i, j \in DOMAIN store.dailySubmissions :
            i # j => store.dailySubmissions[i].date
                        # store.dailySubmissions[j].date)
    /\ [][\A h \in Slots :
            (Leaves(h, "dailyCb") /\ NoFaultNow) =>
                LET today == handlers[h].today
                    read == handlers[h].snap.dailySubmissions
                    kept == store'.dailySubmissions
                IN  /\ Cardinality({i \in DOMAIN kept : kept[i].date = today}) = 1
                    /\ CountOn(kept, today) = CountOn(read, today) + 1
                    /\ Len(kept) <= Len(read)
                            + (IF \E i \in DOMAIN read : read[i].date = today
                               THEN 0 ELSE 1)
         ]_vars

\* the second event of a day has been counted in the bucket of the first
OneBucketPerDateWitness ==
    /\ Len(store.dailySubmissions) >= 2
    /\ \E i \in DOMAIN store.dailySubmissions :
          /\ store.dailySubmissions[i].date = now
          /\ store.dailySubmissions[i].submissions = 2
    /\ hist.faults = 0

-----------------------------------------------------------------------------
(* C14  365-day pruning: what an updateDailySubmissions call writes holds  *)
(* no bucket dated more than 365 days before the date of the event, and    *)
(* holds every bucket it read, and the one of the event, dated 365 days    *)
(* before it or fewer (the one dated exactly 365 days before included).    *)

PrunedToWindow ==
    [][\A h \in Slots :
        (Leaves(h, "dailyCb") /\ NoFaultNow) =>
            LET today == handlers[h].today
                read == handlers[h].snap.dailySubmissions
                kept == store'.dailySubmissions
            IN  /\ \A i \in DOMAIN kept :
                      kept[i].date >= today - RetentionDays
                /\ \A i \in DOMAIN read :
                      read[i].date >= today - RetentionDays
                          => \E j \in DOMAIN kept : kept[j].date = read[i].date
                /\ \E j \in DOMAIN kept : kept[j].date = today
      ]_vars

-----------------------------------------------------------------------------
(* C15  Single writer: the statistics keys of the store change only on a   *)
(* step of a submission handling; no action of the popup writes them.      *)

StatisticsKeys(st) ==
    <<st.dailySubmissions, st.totalSolved, st.easy, st.medium, st.hard,
      st.streak, st.longestStreak, st.lastPushDate, st.unlockedAchievements>>

SingleWriter ==
    [][handlers' = handlers
          => StatisticsKeys(store') = StatisticsKeys(store)]_vars

\* a step that takes a free slot into service for a new message
Starts(h) == ~Busy(h) /\ Busy(h)'

\* a step that answers the sender of the message held by slot h
Answers(h) == Busy(h) /\ handlers'[h] = IdleHandler

(* C16: a NEW_SUBMISSION taken while no repository client is configured    *)
(* fails at once: its handling ends with an error answer that carries the  *)
(* "service not initialized" message, and from its start to its answer it  *)
(* sends no request to the repository and changes no statistics key.       *)
ConfigErrorFirst ==
    [][\A h \in Slots :
         /\ (Starts(h) /\ ~service.live)
               => /\ handlers'[h].pc = "failed"
                  /\ handlers'[h].error = NotInitialized
                  /\ handlers'[h].svc = NoService
                  /\ remote' = remote
                  /\ StatisticsKeys(store') = StatisticsKeys(store)
         /\ (handlers[h].error = NotInitialized /\ handlers'[h] # handlers[h])
               => /\ Answers(h)
                  /\ hist'.errors = hist.errors + 1
                  /\ hist'.ok = hist.ok
                  /\ remote' = remote
                  /\ StatisticsKeys(store') = StatisticsKeys(store)]_vars

\* a message was refused for want of a client and answered with the error
ConfigErrorFirstWitness ==
    /\ ~service.live
    /\ AllIdle
    /\ hist.errors >= 1
    /\ hist.ok = 0
    /\ remote = {}
    /\ StatisticsKeys(store) = StatisticsKeys(EmptyStore)

(* C17: every handling is reported to the user: when the sender is         *)
(* answered with success a success notification was raised, and when it is *)
(* answered with an error, whatever the cause, a failure notification was  *)
(* raised.                                                                  *)
EveryHandlingNotified ==
    [][\A h \in Slots :
         Answers(h) =>
            /\ handlers[h].pc = "notified" => handlers[h].note = "success"
            /\ handlers[h].pc = "failed" => handlers[h].note = "failure"]_vars

(* C18: every message is answered, and answered once: a handling in        *)
(* progress can always take its next step, each answer is one success or   *)
(* one error, a success exactly when the handling completed without error, *)
(* and every message sent is either in progress or answered.               *)
ExactlyOneResponse ==
    /\ [](\A h \in Slots : Busy(h) => ENABLED HandlerStep(h))
    /\ [](hist.sent = hist.ok + hist.errors + Cardinality({h \in Slots : Busy(h)}))
    /\ [][\A h \in Slots :
            Answers(h) =>
               /\ hist'.ok + hist'.errors = hist.ok + hist.errors + 1
               /\ hist'.ok = hist.ok + 1 <=> handlers[h].error = "none"]_vars

(* C19: every GITHUB_CONFIG_UPDATED message, whatever token, owner and     *)
(* repo it carries, an empty token included, is answered with success, and *)
(* once it is handled the background's client is the one built from the    *)
(* values of the message.                                                   *)
ConfigAlwaysApplied ==
    [][hist'.config # hist.config
          => /\ hist'.config.reply = "success"
             /\ service' = Service(hist'.config.data)]_vars

\* the configuration the settings page left in the store
ConfigOf(settings) ==
    [token |-> settings.github_token, owner |-> settings.githubUser,
     repo |-> settings.githubRepo]

(* C20: once the settings page has stored a token, an owner and a          *)
(* repository, the next NEW_SUBMISSION is handled by a client built from   *)
(* the stored values.                                                       *)
ServiceFollowsSettings ==
    [][\A h \in Slots :
         (Starts(h) /\ store.settings.github_token # ""
                    /\ store.settings.githubUser # ""
                    /\ store.settings.githubRepo # "")
            => handlers'[h].svc = Service(ConfigOf(store.settings))]_vars

\* the files of the repositories other than repo
Elsewhere(files, repo) == {f \in files : f.repo # repo}

(* C21: a GITHUB_CONFIG_UPDATED handled while a save is in flight does not *)
(* touch that save: the client a handling holds is the one that was live   *)
(* when it started and stays the same until its answer, the outcome of its *)
(* existence check and the hash it fetches are those of the file in that   *)
(* client's repository, its write changes that repository and no other,    *)
(* and a handling that starts later holds the client live at its start.    *)
ReconfigurationSparesInFlight ==
    [][\A h \in Slots :
         /\ Starts(h) /\ service.live => handlers'[h].svc = service
         /\ Busy(h) /\ Busy(h)' => handlers'[h].svc = handlers[h].svc
         /\ Leaves(h, "check") /\ NoFaultNow =>
               (handlers'[h].pc = "put"
                  <=> GetContentStatus(remote, handlers[h].svc.repo,
                                       handlers[h].path) = 404)
         /\ Leaves(h, "getsha") /\ handlers'[h].pc = "put" =>
               handlers'[h].sha = GetContentSha(remote, handlers[h].svc.repo,
                                                handlers[h].path)
         /\ Leaves(h, "put") =>
               /\ Elsewhere(remote', handlers[h].svc.repo)
                     = Elsewhere(remote, handlers[h].svc.repo)
               /\ handlers'[h].pc = "saved" =>
                     \E f \in remote' :
                        /\ f.repo = handlers[h].svc.repo
                        /\ f.path = handlers[h].path
                        /\ f.bytes = Utf8Bytes(handlers[h].data.code)]_vars

\* a save started on repo-1 was written there although the live client had
\* been moved to repo-2 before the write
ReconfigurationSparesInFlightWitness ==
    \E h \in Slots :
       /\ handlers[h].pc = "saved"
       /\ handlers[h].svc.repo = "repo-1"
       /\ service.live /\ service.repo = "repo-2"
       /\ hist.config.data.repo = "repo-2"
       /\ \E f \in remote : f.repo = "repo-1" /\ f.path = handlers[h].path
                              /\ f.bytes = Utf8Bytes(handlers[h].data.code)
       /\ Elsewhere(remote, "repo-1") = {}

\* the codes the specification lists for the repository client
Taxonomy ==
    {"AUTH_REQUIRED", "INIT_ERROR", "REPO_ACCESS_ERROR", "REPO_EXISTS",
     "REPO_CREATE_ERROR", "PERMISSION_ERROR", "UNAUTHORIZED", "FORBIDDEN",
     "NOT_FOUND", "VALIDATION_FAILED", "UNKNOWN_ERROR"}

(* C22: every error the repository client surfaces carries one of the     *)
(* listed codes, whatever the input and whatever the failure of the        *)
(* transport.                                                               *)
ClosedTaxonomy ==
    \A h \in Slots :
       handlers[h].error = "GitHubError" => handlers[h].code \in Taxonomy

\* the repositories a setup may name
SetupRepos == {config.repo : config \in Configs}

\* the two setup operations of the client
SetupOps == {"setupRepo", "createRepositoryWithStructure"}

\* an operation asked to set up a repository, new or not
RunSetup(op, files, repo, isNew) ==
    IF op = "setupRepo" THEN setupRepo(files, repo, isNew)
    ELSE createRepositoryWithStructure(files, repo)

\* the placeholder files of an operation
PlaceholdersOf(op) ==
    IF op = "setupRepo"
    THEN {Placeholder(Folders[i]) : i \in DOMAIN Folders}
    ELSE {FolderReadme(Folders[i]) : i \in DOMAIN Folders}

(* C23: a setup that asks for a new repository which exists already       *)
(* adopts it: when the account can push, the setup goes on to the folders  *)
(* and returns with every placeholder in place; when it cannot, the setup  *)
(* fails with the permission error and writes no file.                     *)
AdoptsExisting ==
    \A repo \in SetupRepos, op \in SetupOps :
       RepoExists(remote, repo) =>
          LET done == RunSetup(op, remote, repo, TRUE)
          IN  IF CanPush(repo)
              THEN /\ done.code = "none"
                   /\ remote \subseteq done.files
                   /\ \A path \in PlaceholdersOf(op) :
                         FilesAt(done.files, repo, path) # {}
              ELSE /\ done.code = "PERMISSION_ERROR"
                   /\ done.files = remote

(* C24: when a setup that returned is run again on the same repository,   *)
(* the second run returns as well and writes nothing, and each folder's    *)
(* placeholder is there exactly once.                                      *)
FoldersIdempotent ==
    \A repo \in SetupRepos, op \in SetupOps, isNew \in BOOLEAN :
       LET first == RunSetup(op, remote, repo, isNew)
           second == RunSetup(op, first.files, repo, isNew)
       IN  first.code = "none" =>
              /\ second.code = "none"
              /\ second.files = first.files
              /\ \A path \in PlaceholdersOf(op) :
                    Cardinality(FilesAt(second.files, repo, path)) = 1

\* the content script forwards a record and the handling h of it starts
Forwarded(h) == Starts(h) /\ hist'.sent = hist.sent + 1

\* C25: when on a detected success every way of extracting the code fails,
\* no NEW_SUBMISSION message is forwarded for that detection
AbortsOnTotalFailure ==
    [][CodeThrows(page.platform, page.problem) => hist'.sent = hist.sent]_vars

\* C26: the failure of one field's extraction does not discard the others:
\* when the code is extracted, the forwarded record carries the extracted
\* code and problemId, whether or not the language is found
FieldIsolation ==
    [][\A h \in Slots :
         Forwarded(h) /\ ~CodeThrows(page.platform, page.problem)
         => /\ handlers'[h].data.code = Strip(page.problem.code, SpaceUnits)
            /\ \E stamp \in 0 .. hist'.sent :
                  handlers'[h].data.problemId =
                      extractProblemId(page.platform, page.problem, stamp)]_vars

\* C27: every forwarded record has a non-empty problemId and a non-empty
\* language, on every supported platform and every document
ForwardedFieldsNonEmpty ==
    \A h \in Slots :
        Busy(h) => /\ handlers[h].data.problemId # <<>>
                   /\ handlers[h].data.language # <<>>

\* C28: the problemId of a LeetCode page comes from the first of the title
\* elements, the address, the document title and the time of the call that
\* yields text; with no title element and an address ending in
\* /problems/two-sum it is two-sum
FallbackChain ==
    [][\A h \in Slots :
         Forwarded(h) /\ page.platform = Leetcode
                      /\ ~CodeThrows(page.platform, page.problem)
         => LET doc == page.problem
                id == handlers'[h].data.problemId
                title == Strip(doc.title, Space)
                head == Strip(Prefix(doc.docTitle, Range(doc.docTitle) \ {"-"}),
                              Space)
            IN  /\ title # <<>> => id = Slug(title)
                /\ title = <<>> /\ doc.slug # <<>> => id = Slug(doc.slug)
                /\ title = <<>> /\ doc.slug = <<>> /\ head # <<>>
                   => id = Slug(head)
                /\ title = <<>> /\ doc.slug = <<>> /\ head = <<>>
                   => \E stamp \in 0 .. hist'.sent :
                         id = <<"l","e","e","t","c","o","d","e","-",
                                "p","r","o","b","l","e","m","-">>
                              \o Decimal(stamp)
                /\ title = <<>> /\ doc.slug = <<"t","w","o","-","s","u","m">>
                   => id = <<"t","w","o","-","s","u","m">>]_vars

\* a record was forwarded from a LeetCode page that has no title element,
\* an address ending in /problems/two-sum and a document title
FallbackChainWitness ==
    \E h \in Slots :
        /\ Busy(h) /\ hist.sent = 1
        /\ page.platform = Leetcode /\ page.problem.title = <<>>
        /\ page.problem.slug = <<"t","w","o","-","s","u","m">>
        /\ page.problem.docTitle # <<>>
        /\ handlers[h].data.problemId = <<"t","w","o","-","s","u","m">>

\* C29: sanitizeFileName maps "Two Sum! (Easy)" to two-sum-easy, and every
\* output is lower-case letters and digits separated by single hyphens,
\* with no hyphen at either end
SanitizedIsSlug ==
    \A h \in Slots :
        Busy(h) =>
            LET name == handlers[h].data.problemId
                out == sanitizeFileName(name)
            IN  /\ Range(out) \subseteq Range(Lower) \cup Digits \cup {"-"}
                /\ \A i \in 1 .. Len(out) - 1 :
                      ~(out[i] = "-" /\ out[i + 1] = "-")
                /\ out # <<>> => out[1] # "-" /\ out[Len(out)] # "-"
                /\ name = <<"T","w","o"," ","S","u","m","!"," ",
                            "(","E","a","s","y",")">>
                   => out = <<"t","w","o","-","s","u","m","-",
                              "e","a","s","y">>

\* C30: for every platform value, problemId and language, the save of a
\* record targets "{platform}/{sanitized problemId}.{extension}", the
\* extension being that of the lower-cased language in the table, or txt
SavePath ==
    \A h \in Slots :
        Busy(h) /\ handlers[h].svc.live =>
            LET data == handlers[h].data
                rows == {e \in langMap : e[1] = ToLowerCase(data.language)}
                ext == IF rows = {} THEN <<"t","x","t">>
                       ELSE (CHOOSE e \in rows : TRUE)[2]
            IN  handlers[h].path =
                    data.platform \o <<"/">> \o sanitizeFileName(data.problemId)
                        \o <<".">> \o ext

\* the dailyCheck run ends, with or without the reminder
DailyCheckEnds ==
    handlers[DailyCheckSlot].pc = "remind"
        /\ handlers'[DailyCheckSlot].pc = "idle"

Reminded == hist'.reminders = hist.reminders + 1

\* a submission is recorded in the bucket of the day
RecordedOn(day) ==
    \E i \in DOMAIN store.dailySubmissions :
        /\ store.dailySubmissions[i].date = day
        /\ store.dailySubmissions[i].submissions > 0

\* C31: the dailyCheck alarm raises the reminder exactly when notifications
\* are enabled and the stored lastPushDate is not the current date, and
\* never on a day on which a submission has been recorded
ReminderOnlyWhenDue ==
    [][DailyCheckEnds =>
         /\ Reminded <=> /\ handlers[DailyCheckSlot].snap.notifications
                         /\ store.lastPushDate # now
         /\ Reminded => ~RecordedOn(now)]_vars

\* a step of a run of an alarm handler
AlarmStep ==
    \/ \E a \in AlarmSlots : handlers'[a] # handlers[a]
    \/ hist'.alarms # hist.alarms

\* C32: the dailyCheck and repoCheck handlers leave dailySubmissions,
\* totalSolved, easy, medium, hard, streak, longestStreak, lastPushDate and
\* unlockedAchievements unchanged, however often and in whatever state the
\* alarms fire
AlarmsReadOnly ==
    [][AlarmStep => StatisticsKeys(store') = StatisticsKeys(store)]_vars

\* C33: GET_SUBMISSION_STATS answers with the stored dailySubmissions,
\* totalSolved, easy, medium and hard (the empty list and 0 for missing
\* keys) and changes no key of the store
StatsPureRead ==
    [][hist'.reads # hist.reads =>
         /\ store' = store
         /\ hist'.stats.success
         /\ hist'.stats.data =
                [dailySubmissions |-> store.dailySubmissions,
                 totalSolved |-> store.totalSolved, easy |-> store.easy,
                 medium |-> store.medium, hard |-> store.hard]]_vars

\* the statistics were asked for after a submission was counted
StatsPureReadWitness ==
    /\ hist.reads = 1
    /\ hist.solved0 > 0
    /\ hist.stats.data.totalSolved = hist.solved0 + 1
    /\ hist.stats.data.dailySubmissions = store.dailySubmissions
    /\ store.lastSubmissionDate = now

\* two handlings of the same record on the same client are in flight
SameRecord(h, g) ==
    /\ h # g /\ Busy(h) /\ Busy(g)
    /\ handlers[h].data = handlers[g].data
    /\ handlers[h].svc = handlers[g].svc

\* C34: when the same record is forwarded again while its handling is in
\* flight, neither of the overlapping handlings fails with an error of the
\* remote, and one file is at the path
RetryIsSafe ==
    \A h, g \in Slots :
        (/\ SameRecord(h, g) /\ handlers[h].svc.live
         /\ RepoExists(remote, handlers[h].svc.repo)
         /\ WellFormed(handlers[h].data.code)
         /\ hist.faults = 0)
        => /\ handlers[h].error # "GitHubError"
           /\ Cardinality(FilesAt(remote, handlers[h].svc.repo,
                                  handlers[h].path)) <= 1

\* the number of consecutive days ending at day that each have a bucket
\* with a submission
RECURSIVE DaysInARow(_)
DaysInARow(day) ==
    IF RecordedOn(day) THEN 1 + DaysInARow(day - 1) ELSE 0

\* C35: from an empty store and with successful handlings only, in every
\* quiescent state the stored streak is the number of consecutive calendar
\* days ending at lastPushDate that each have a bucket with a submission
StreakMatchesBuckets ==
    (/\ AllIdle
     /\ hist.solved0 = 0 /\ hist.boosts = 0
     /\ hist.errors = 0 /\ hist.faults = 0)
    => store.streak = DaysInARow(store.lastPushDate)

\* the steps of a handling inside saveSolution
SavePhase == {"check", "getsha", "put"}

\* C36: when saveSolution raises an error, the handling changes none of
\* dailySubmissions, totalSolved, easy, medium, hard, streak,
\* longestStreak, lastPushDate and unlockedAchievements, and raises no
\* success notification
FailedSaveLeavesStatistics ==
    [][\A h \in Slots :
         handlers'[h] # handlers[h] =>
            /\ handlers[h].pc \in SavePhase
               => StatisticsKeys(store') = StatisticsKeys(store)
            /\ handlers'[h].error = "GitHubError" \/ handlers[h].error = "GitHubError"
               => /\ StatisticsKeys(store') = StatisticsKeys(store)
                  /\ handlers'[h].note # "success"
                  /\ ~handlers'[h].counted /\ ~handlers'[h].streaked]_vars

\* a save failed with an error of the remote and the handling was answered,
\* with the statistics as they were at the start
FailedSaveLeavesStatisticsWitness ==
    /\ hist.errors = 1 /\ hist.sent = 1 /\ hist.boosts = 0
    /\ AllIdle
    /\ service.live
    /\ store.totalSolved = hist.solved0
    /\ hist.solved0 > 0

\* the file of the handling h is in the repository of its client
FileStored(h) ==
    FilesAt(remote, handlers[h].svc.repo, handlers[h].path) # {}

\* C37: {success: true} is answered only after the remote write, then the
\* write of the bucket and the counters, then the streak update, then the
\* success notification; never before the file is in the repository
SuccessAfterAllSteps ==
    [][\A h \in Slots :
         /\ handlers[h].pc = "dailyCb" /\ handlers'[h].pc = "dailyDone"
            => FileStored(h)
         /\ handlers[h].pc = "streakCb" /\ handlers'[h] # handlers[h]
            => FileStored(h) /\ handlers[h].counted
         /\ ~handlers[h].streaked /\ handlers'[h].streaked
            => /\ handlers[h].counted
               /\ store'.lastPushDate = handlers'[h].today
         /\ Answers(h) /\ hist'.ok = hist.ok + 1
            => /\ FileStored(h) /\ handlers[h].counted
               /\ handlers[h].streaked /\ handlers[h].note = "success"]_vars

\* the submissions of the first n buckets
RECURSIVE SubmissionsIn(_, _)
SubmissionsIn(daily, n) ==
    IF n = 0 THEN 0 ELSE daily[n].submissions + SubmissionsIn(daily, n - 1)

\* C38: easy + medium + hard is at most totalSolved, totalSolved is at least
\* the submissions of the retained buckets, and in every bucket easy +
\* medium + hard is at most submissions
CountersConsistent ==
    /\ store.easy + store.medium + store.hard <= store.totalSolved
    /\ store.totalSolved >=
          SubmissionsIn(store.dailySubmissions, Len(store.dailySubmissions))
    /\ \A i \in DOMAIN store.dailySubmissions :
          LET b == store.dailySubmissions[i]
          IN  b.easy + b.medium + b.hard <= b.submissions

\* C39: for every successful handling, the date of the bucket that was
\* incremented, the stored lastSubmissionDate and the lastPushDate of the
\* streak update are the same calendar date, even when the clock crosses
\* midnight between the two updates
OneEventOneDate ==
    [][\A h \in Slots :
         /\ handlers[h].pc = "dailyCb" /\ handlers'[h].counted
            => /\ store'.lastSubmissionDate = handlers[h].today
               /\ CountOn(store'.dailySubmissions, handlers[h].today) > 0
         /\ (/\ handlers[h].pc = "streakCb" /\ handlers[h].counted
             /\ handlers'[h].pc \in {"streakDone", "notified"})
            => /\ handlers'[h].today = handlers[h].today
               /\ handlers'[h].pc = "streakDone"
                  => store'.lastPushDate = handlers[h].today]_vars

\* C40: a setup of an existing repository (isNew = false) that finds no
\* push permission on it fails with code PERMISSION_ERROR and creates no
\* file: no folder placeholder is written and the repository name is not
\* stored
ReadOnlySetupWritesNothing ==
    [][\A config \in Configs :
         (/\ handleSetup(config, FALSE)
          /\ RepoExists(remote, config.repo)
          /\ ~CanPush(config.repo))
         => LET done == setupRepo(remote, config.repo, FALSE)
            IN  /\ done.code = "PERMISSION_ERROR"
                /\ done.files = remote
                /\ remote' = remote
                /\ \A i \in DOMAIN Folders :
                      FilesAt(remote', config.repo, Placeholder(Folders[i])) = {}
                /\ store'.settings.githubRepo = store.settings.githubRepo]_vars

\* the settings page has run a setup on the read-only repository of
\* another owner, which exists: the token and the user are stored, the
\* repository name is not, and the repository holds what it held
ReadOnlySetupWritesNothingWitness ==
    /\ \E config \in Configs :
          /\ ~CanPush(config.repo)
          /\ RepoExists(remote, config.repo)
          /\ store.settings.github_token = config.token
          /\ store.settings.githubUser = config.owner
          /\ setupRepo(remote, config.repo, FALSE).code = "PERMISSION_ERROR"
    /\ store.settings.githubRepo = ""
    /\ remote = AutoInit("repo-ro")

=============================================================================
